---- MODULE Spec2Model ----
(***************************************************************************)
(* Veo Image Animator: the UI controller (src/App.tsx) and the generation  *)
(* client (src/services/geminiService.ts) as one state machine.            *)
(*                                                                         *)
(* Every `await` of the source is a point where the workflow is suspended; *)
(* one action models what runs between two such points.  The client's      *)
(* promise settles in the state pc = "fulfilled" / "rejected"; the         *)
(* continuation of handleGenerateVideo (lines 89-111) consumes it.         *)
(* Strings the code tests with includes() are sequences of segments, so    *)
(* that the substring tests are computed, not assumed.                     *)
(***************************************************************************)
EXTENDS Integers, FiniteSets, Sequences, TLC

\* ------------------------------------------------------------------ bounds
MaxRuns == 2      \* generate() workflows (and their re-prompts) outstanding at once
MaxPolls == 2     \* not-done reports the operation may give in one run
MaxDialogs == 1   \* key-selection dialogs opened by the "Select API Key" button and pending

\* ------------------------------------------------------- program constants
PollIntervalMs == 10000

\* --------------------------------------------------------------- the values
Null == "null"
NoMessage == <<>>                         \* error === null

\* A File is its declared type, as segments; NoFile is null / undefined.
NoFile == <<>>
JpegFile == <<"image/", "jpeg">>
TextFile == <<"text/", "plain">>
PdfFile == <<"application/", "pdf">>
OddFile == <<"application/", "image/", "x">>     \* "image/" inside the type, not at its start
FileInputs == {NoFile, JpegFile, TextFile, PdfFile, OddFile}

\* String.prototype.startsWith over segmented text.
StartsWith(text, prefix) == Len(text) > 0 /\ text[1] = prefix

SIXTEEN_NINE == "16:9"
NINE_SIXTEEN == "9:16"
AspectRatios == {SIXTEEN_NINE, NINE_SIXTEEN}

EmptyPrompt == ""
UserPrompt == "Add subtle movements to the water"
Prompts == {EmptyPrompt, UserPrompt}
DefaultPrompt == "An animated scene based on the image."

PreviewUrl == "blob:preview"
VideoUrl == "blob:video"

\* String.prototype.includes over segmented text.
Includes(text, phrase) == \E i \in 1..Len(text) : text[i] = phrase

\* ---- messages set by the UI controller
MsgInvalidImage == <<"Please upload a valid image file (e.g., JPG, PNG).">>
MsgDialogFailed == <<"Failed to open API key selection dialog.">>
MsgNoEnvironment == <<"aistudio environment not available to select API key.">>
MsgNoImage == <<"Please upload an image first.">>
MsgKeyNotSelected == <<"API Key is not configured", ". Please click \"Select API Key\" below.">>
MsgUnexpected == <<"An unexpected error occurred during video generation.">>

\* ---- thrown values: an Error object, a string, or any other value
ErrorOf(msg) == [type |-> "Error", message |-> msg]
StringOf(msg) == [type |-> "string", message |-> msg]
OtherValue == [type |-> "other", message |-> <<"[object ProgressEvent]">>]

\* ---- errors the generation client throws
ErrEnvironment == ErrorOf(<<"aistudio environment not found. Please ensure you are running in a compatible environment.">>)
ErrNotConfigured == ErrorOf(<<"API Key is not configured", ". Please select your API key.">>)
ErrNoDownloadLink == ErrorOf(<<"Failed to retrieve video download link from the operation response.">>)
ErrInvalidKey == ErrorOf(<<"Video generation failed: ", "Invalid API Key", " or resource not found. Please re-select your API key and try again.">>)
ErrFetchFailed(status, body) == ErrorOf(<<"Failed to fetch generated video: ", ToString(status)>> \o body)

\* ---- what the external endpoints may answer
ProviderRejections == {ErrorOf(<<"key provider failed">>), StringOf(<<"key provider failed">>)}
ApiError == ErrorOf(<<"ApiError">>)               \* @google/genai call rejected
NetworkError == ErrorOf(<<"Failed to fetch">>)    \* fetch / body read rejected
ReadError == OtherValue                           \* FileReader.onerror event

NotFoundBody == <<"Requested entity was not found.">>
OtherBody == <<"Internal error encountered.">>
Bodies == {NotFoundBody, OtherBody}
HttpStatuses == {200, 404, 500}
Unread == <<>>                                    \* the body before text() / blob()
ResponseOk(response) == response.status >= 200 /\ response.status <= 299

NoVideos == "no generated videos"
NoUri == "video without uri"
HasUri == "video with uri"
Pending == [done |-> FALSE, video |-> NoVideos]
Operations == {Pending} \cup [done : {TRUE}, video : {NoVideos, NoUri, HasUri}]

\* ------------------------------------------------------------------- state
VARIABLES
    selectedImageFile,   \* NoFile or the chosen file
    imagePreviewUrl,     \* Null or PreviewUrl
    prompt,
    aspectRatio,
    generatedVideoUrl,   \* Null or VideoUrl
    isLoading,
    error,               \* NoMessage or a message
    apiKeySelected,      \* "null" (unknown), "true", "false"
    aistudio,            \* window.aistudio is defined
    API_KEY,             \* process.env.API_KEY is a non-empty string
    mount,               \* checkApiKeyStatus of the mount effect: "init", "awaiting", "done"
    dialogs,             \* handleOpenApiKeySelection calls awaiting openSelectKey
    reprompts,           \* unawaited openSelectKey calls of the catch block, still pending
    unhandled,           \* an unawaited openSelectKey promise rejected with no handler
    run                  \* the generate() workflows, by slot

vars == <<selectedImageFile, imagePreviewUrl, prompt, aspectRatio, generatedVideoUrl,
          isLoading, error, apiKeySelected, aistudio, API_KEY, mount, dialogs,
          reprompts, unhandled, run>>

ui == <<selectedImageFile, imagePreviewUrl, prompt, aspectRatio, generatedVideoUrl,
        isLoading, error, apiKeySelected>>
env == <<aistudio, API_KEY>>

Runs == 1..MaxRuns

Idle == [pc |-> "idle", image |-> NoFile, prompt |-> EmptyPrompt, aspectRatio |-> SIXTEEN_NINE,
         keyAtStart |-> "null", hasKey |-> "null", operation |-> Pending,
         response |-> [status |-> 200, body |-> Unread],
         nHasKey |-> 0, nSelect |-> 0, nSubmit |-> 0, nNotDone |-> 0, nWait |-> 0,
         nStatus |-> 0, nFetch |-> 0, request |-> <<>>, thrown |-> OtherValue,
         url |-> Null]

Active == {r \in Runs : run[r].pc # "idle"}

Init ==
    /\ selectedImageFile = NoFile
    /\ imagePreviewUrl = Null
    /\ prompt = EmptyPrompt
    /\ aspectRatio = SIXTEEN_NINE
    /\ generatedVideoUrl = Null
    /\ isLoading = FALSE
    /\ error = NoMessage
    /\ apiKeySelected = "null"
    /\ aistudio \in BOOLEAN
    /\ API_KEY \in BOOLEAN
    /\ mount = "init"
    /\ dialogs = 0
    /\ reprompts = 0
    /\ unhandled = FALSE
    /\ run = [r \in Runs |-> Idle]

\* ------------------------------------------------------------ UI controller

\* App.tsx 20-37: the mount effect starts checkApiKeyStatus.
CheckApiKeyStatus ==
    /\ mount = "init"
    /\ IF aistudio
       THEN /\ mount' = "awaiting"                 \* await hasSelectedApiKey()
            /\ UNCHANGED apiKeySelected
       ELSE /\ mount' = "done"
            /\ apiKeySelected' = "false"
    /\ UNCHANGED <<selectedImageFile, imagePreviewUrl, prompt, aspectRatio,
                   generatedVideoUrl, isLoading, error, env, dialogs, reprompts,
                   unhandled, run>>

\* The ways hasSelectedApiKey() settles: with an answer or rejected.
CheckOutcomes == {"true", "false", "rejected"}

\* Mutant: a failed check leaves the flag as it was.
StatusAfterCheck_KeepOnError(outcome) ==
    IF outcome = "rejected" THEN apiKeySelected ELSE outcome

\* App.tsx 24-29: setApiKeySelected(hasKey) in the try, setApiKeySelected(false)
\* in the catch.
StatusAfterCheck(outcome) == IF outcome = "rejected" THEN "false" ELSE outcome

\* App.tsx 24-29: hasSelectedApiKey() settles with the given outcome.
CheckApiKeyStatusReply(outcome) ==
    /\ mount = "awaiting"
    /\ mount' = "done"
    /\ apiKeySelected' = StatusAfterCheck(outcome)
    /\ UNCHANGED <<selectedImageFile, imagePreviewUrl, prompt, aspectRatio,
                   generatedVideoUrl, isLoading, error, env, dialogs, reprompts,
                   unhandled, run>>

\* App.tsx 24-29: hasSelectedApiKey() answers or rejects.
CheckApiKeyStatusSettles == \E outcome \in CheckOutcomes : CheckApiKeyStatusReply(outcome)

\* Mutant: the type is searched for 'image/' instead of tested at its start.
IsImageFile_Includes(file) == file # NoFile /\ Includes(file, "image/")

\* App.tsx 43: file && file.type.startsWith('image/')
IsImageFile(file) == file # NoFile /\ StartsWith(file, "image/")

\* Mutant: choosing a file leaves the previous result in place.
HandleFileChange_KeepsResult(file) ==
    /\ IF IsImageFile(file)
       THEN /\ selectedImageFile' = file
            /\ imagePreviewUrl' = PreviewUrl
            /\ error' = NoMessage
       ELSE /\ selectedImageFile' = NoFile
            /\ imagePreviewUrl' = Null
            /\ error' = MsgInvalidImage
    /\ UNCHANGED <<prompt, aspectRatio, generatedVideoUrl, isLoading, apiKeySelected,
                   env, mount, dialogs, reprompts, unhandled, run>>

\* Mutant: an accepted file is stored without deriving its preview.
HandleFileChange_NoPreview(file) ==
    /\ generatedVideoUrl' = Null
    /\ IF IsImageFile(file)
       THEN /\ selectedImageFile' = file
            /\ error' = NoMessage
            /\ UNCHANGED imagePreviewUrl
       ELSE /\ selectedImageFile' = NoFile
            /\ imagePreviewUrl' = Null
            /\ error' = MsgInvalidImage
    /\ UNCHANGED <<prompt, aspectRatio, isLoading, apiKeySelected, env, mount,
                   dialogs, reprompts, unhandled, run>>

\* App.tsx 39-51
HandleFileChange(file) ==
    /\ generatedVideoUrl' = Null
    /\ IF IsImageFile(file)
       THEN /\ selectedImageFile' = file
            /\ imagePreviewUrl' = PreviewUrl
            /\ error' = NoMessage
       ELSE /\ selectedImageFile' = NoFile
            /\ imagePreviewUrl' = Null
            /\ error' = MsgInvalidImage
    /\ UNCHANGED <<prompt, aspectRatio, isLoading, apiKeySelected, env, mount,
                   dialogs, reprompts, unhandled, run>>

\* App.tsx 170: the preview image is rendered.
PreviewShown == imagePreviewUrl # Null

\* App.tsx 176: the "Invalid file type selected." note is rendered.
InvalidTypeNoteShown == imagePreviewUrl = Null /\ selectedImageFile # NoFile

\* App.tsx 191
SetPrompt(text) ==
    /\ prompt' = text
    /\ UNCHANGED <<selectedImageFile, imagePreviewUrl, aspectRatio, generatedVideoUrl,
                   isLoading, error, apiKeySelected, env, mount, dialogs, reprompts,
                   unhandled, run>>

\* App.tsx 211, 223
SetAspectRatio(ratio) ==
    /\ aspectRatio' = ratio
    /\ UNCHANGED <<selectedImageFile, imagePreviewUrl, prompt, generatedVideoUrl,
                   isLoading, error, apiKeySelected, env, mount, dialogs, reprompts,
                   unhandled, run>>

\* App.tsx 53-67, up to the await of openSelectKey().
HandleOpenApiKeySelection ==
    /\ IF aistudio
       THEN /\ dialogs < MaxDialogs
            /\ dialogs' = dialogs + 1
            /\ error' = NoMessage
       ELSE /\ error' = MsgNoEnvironment
            /\ UNCHANGED dialogs
    /\ UNCHANGED <<selectedImageFile, imagePreviewUrl, prompt, aspectRatio,
                   generatedVideoUrl, isLoading, apiKeySelected, env, mount,
                   reprompts, unhandled, run>>

\* Mutant: the flag is set to true however the dialog ended.
StatusAfterSelection_Always(resolved) == "true"

\* App.tsx 58-63: setApiKeySelected(true) follows the await inside the try; the
\* catch leaves the flag alone.
StatusAfterSelection(resolved) == IF resolved THEN "true" ELSE apiKeySelected

\* App.tsx 58-63: openSelectKey() resolves (resolved) or rejects.
OpenApiKeySelectionReply(resolved) ==
    /\ dialogs > 0
    /\ dialogs' = dialogs - 1
    /\ apiKeySelected' = StatusAfterSelection(resolved)
    /\ error' = IF resolved THEN error ELSE MsgDialogFailed
    /\ UNCHANGED <<selectedImageFile, imagePreviewUrl, prompt, aspectRatio,
                   generatedVideoUrl, isLoading, env, mount, reprompts, unhandled, run>>

\* App.tsx 58-63: openSelectKey() resolves or rejects.
OpenApiKeySelectionSettles == \E resolved \in BOOLEAN : OpenApiKeySelectionReply(resolved)

\* App.tsx 105: the promise of the unawaited openSelectKey() settles; nothing
\* is attached to it, so a rejection is an unhandled rejection.
RepromptSettles ==
    /\ reprompts > 0
    /\ reprompts' = reprompts - 1
    /\ \E resolved \in BOOLEAN : unhandled' = (unhandled \/ ~resolved)
    /\ UNCHANGED <<ui, env, mount, dialogs, run>>

\* Mutant: the guard forgets the loading flag.
GenerateDisabled_NoLoading == selectedImageFile = NoFile \/ apiKeySelected = "false"

\* App.tsx 242: disabled={!selectedImageFile || isLoading || apiKeySelected === false}
GenerateDisabled == selectedImageFile = NoFile \/ isLoading \/ apiKeySelected = "false"

\* Mutant: the client starts its key check without testing for the provider.
ClientEntry_NoCheck(rec) == [rec EXCEPT !.pc = "hasKey", !.nHasKey = 1]

\* geminiService.ts 43-49: the client up to its first await.
ClientEntry(rec) ==
    IF ~aistudio
    THEN [rec EXCEPT !.pc = "rejected", !.thrown = ErrEnvironment]
    ELSE [rec EXCEPT !.pc = "hasKey", !.nHasKey = 1]

\* App.tsx 70
ImageMissing == selectedImageFile = NoFile

\* Mutant: the check tests the wrong value of the tri-state flag.
KeyCheckFails_WrongValue == apiKeySelected = "null"

\* App.tsx 75
KeyCheckFails == apiKeySelected = "false"

FreeSlot == CHOOSE r \in Runs : run[r].pc = "idle" /\ \A q \in Runs : run[q].pc = "idle" => r <= q

\* App.tsx 69-88: handleGenerateVideo up to the await of the client.
HandleGenerateVideo ==
    IF ImageMissing
    THEN /\ error' = MsgNoImage
         /\ UNCHANGED <<selectedImageFile, imagePreviewUrl, prompt, aspectRatio,
                        generatedVideoUrl, isLoading, apiKeySelected, env, mount,
                        dialogs, reprompts, unhandled, run>>
    ELSE IF KeyCheckFails
    THEN /\ error' = MsgKeyNotSelected
         /\ UNCHANGED <<selectedImageFile, imagePreviewUrl, prompt, aspectRatio,
                        generatedVideoUrl, isLoading, apiKeySelected, env, mount,
                        dialogs, reprompts, unhandled, run>>
    ELSE /\ Cardinality(Active) + reprompts < MaxRuns
         /\ isLoading' = TRUE
         /\ error' = NoMessage
         /\ generatedVideoUrl' = Null
         /\ run' = [run EXCEPT ![FreeSlot] =
                      ClientEntry([Idle EXCEPT !.image = selectedImageFile,
                                               !.prompt = prompt,
                                               !.aspectRatio = aspectRatio,
                                               !.keyAtStart = apiKeySelected])]
         /\ UNCHANGED <<selectedImageFile, imagePreviewUrl, prompt, aspectRatio,
                        apiKeySelected, env, mount, dialogs, reprompts, unhandled>>

\* Mutant: no default message for a thrown value that is no Error and no string.
ErrorMessage_NoDefault(err) ==
    IF err.type = "Error" THEN err.message
    ELSE IF err.type = "string" THEN err.message
    ELSE NoMessage

\* App.tsx 93-98
ErrorMessage(err) ==
    IF err.type = "Error" THEN err.message
    ELSE IF err.type = "string" THEN err.message
    ELSE MsgUnexpected

\* Mutant: only the first phrase is tested.
IsKeyError_FirstPhrase(errorMessage) == Includes(errorMessage, "API Key is not configured")

\* App.tsx 101
IsKeyError(errorMessage) ==
    Includes(errorMessage, "API Key is not configured") \/ Includes(errorMessage, "Invalid API Key")

\* App.tsx 89-90, 109-111: the client's promise fulfilled.
GenerateFulfilled(r) ==
    /\ run[r].pc = "fulfilled"
    /\ generatedVideoUrl' = run[r].url
    /\ isLoading' = FALSE
    /\ run' = [run EXCEPT ![r] = Idle]
    /\ UNCHANGED <<selectedImageFile, imagePreviewUrl, prompt, aspectRatio, error,
                   apiKeySelected, env, mount, dialogs, reprompts, unhandled>>

\* Mutant: the cleanup is in the try block only, not in a finally.
GenerateRejected_NoFinally(r) ==
    /\ run[r].pc = "rejected"
    /\ LET errorMessage == IF run[r].thrown.type = "other" THEN MsgUnexpected
                            ELSE run[r].thrown.message IN
         /\ IF Includes(errorMessage, "API Key is not configured")
               \/ Includes(errorMessage, "Invalid API Key")
            THEN /\ apiKeySelected' = "false"
                 /\ reprompts' = IF aistudio THEN reprompts + 1 ELSE reprompts
            ELSE UNCHANGED <<apiKeySelected, reprompts>>
         /\ error' = errorMessage
    /\ run' = [run EXCEPT ![r] = Idle]
    /\ UNCHANGED <<selectedImageFile, imagePreviewUrl, prompt, aspectRatio,
                   generatedVideoUrl, isLoading, env, mount, dialogs, unhandled>>

\* App.tsx 91-111: the client's promise rejected.
GenerateRejected(r) ==
    /\ run[r].pc = "rejected"
    /\ LET errorMessage == ErrorMessage(run[r].thrown) IN
         /\ IF IsKeyError(errorMessage)
            THEN /\ apiKeySelected' = "false"
                 /\ reprompts' = IF aistudio THEN reprompts + 1 ELSE reprompts
            ELSE UNCHANGED <<apiKeySelected, reprompts>>
         /\ error' = errorMessage
    /\ isLoading' = FALSE
    /\ run' = [run EXCEPT ![r] = Idle]
    /\ UNCHANGED <<selectedImageFile, imagePreviewUrl, prompt, aspectRatio,
                   generatedVideoUrl, env, mount, dialogs, unhandled>>

\* -------------------------------------------------------- generation client

Throw(rec, err) == [rec EXCEPT !.pc = "rejected", !.thrown = err]

\* Mutant: the call fails only when the credential and the selection both lack.
CredentialMissing_Both(apiKey, selected) == ~apiKey /\ ~selected

\* geminiService.ts 58
CredentialMissing(apiKey, selected) == ~apiKey \/ ~selected

\* Mutant: the prompt is submitted as typed.
RequestPrompt_Identity(text) == text

\* geminiService.ts 71: prompt || 'An animated scene based on the image.'
RequestPrompt(text) == IF text = EmptyPrompt THEN DefaultPrompt ELSE text

\* Mutant: the loop test is inverted.
LoopContinues_Inverted(operation) == operation.done

\* geminiService.ts 84
LoopContinues(operation) == ~operation.done

\* Mutant: the link test only asks whether a first video entry exists.
DownloadLink_AnyEntry(operation) == IF operation.video # NoVideos THEN "https://video" ELSE Null

\* geminiService.ts 90: operation.response?.generatedVideos?.[0]?.video?.uri
DownloadLink(operation) == IF operation.video = HasUri THEN "https://video" ELSE Null

\* Mutant: the body test is negated.
IsInvalidKeyResponse_Negated(response) ==
    response.status = 404 /\ ~Includes(response.body, "Requested entity was not found.")

\* geminiService.ts 101
IsInvalidKeyResponse(response) ==
    response.status = 404 /\ Includes(response.body, "Requested entity was not found.")

\* geminiService.ts 58-66: after the key check, up to the await of fileToBase64.
AfterKeyCheck(rec, selected) ==
    IF CredentialMissing(API_KEY, selected)
    THEN Throw(rec, ErrNotConfigured)
    ELSE [rec EXCEPT !.pc = "encode"]

\* geminiService.ts 84-97: the loop test with an operation state in hand, up to
\* the next await (the timer of line 86 or the fetch of line 97).
AfterOperation(rec, operation) ==
    IF LoopContinues(operation)
    THEN [rec EXCEPT !.pc = "wait", !.operation = operation, !.nWait = @ + 1]
    ELSE IF DownloadLink(operation) = Null
    THEN Throw([rec EXCEPT !.operation = operation], ErrNoDownloadLink)
    ELSE [rec EXCEPT !.pc = "fetch", !.operation = operation, !.nFetch = @ + 1]

\* The operation states the remote may report to this run: not-done at most
\* MaxPolls times.
Reports(rec) == {o \in Operations : o.done \/ rec.nNotDone < MaxPolls}

\* The remote's report, counted on the remote's side.
Reported(rec, operation) ==
    [rec EXCEPT !.nNotDone = IF operation.done THEN @ ELSE @ + 1]

\* geminiService.ts 49-56: hasSelectedApiKey() answers or rejects.
HasSelectedApiKeySettles(r) ==
    /\ run[r].pc = "hasKey"
    /\ \/ \E hasKey \in BOOLEAN :
            run' = [run EXCEPT ![r] =
                      IF ~hasKey
                      THEN [@ EXCEPT !.pc = "selectKey", !.hasKey = "false", !.nSelect = @ + 1]
                      ELSE AfterKeyCheck([@ EXCEPT !.hasKey = "true"], TRUE)]
       \/ \E err \in ProviderRejections :
            run' = [run EXCEPT ![r] = Throw(@, err)]
    /\ UNCHANGED <<ui, env, mount, dialogs, reprompts, unhandled>>

\* geminiService.ts 52-55: openSelectKey() resolves or rejects.
OpenSelectKeySettles(r) ==
    /\ run[r].pc = "selectKey"
    /\ \/ run' = [run EXCEPT ![r] = AfterKeyCheck(@, TRUE)]
       \/ \E err \in ProviderRejections :
            run' = [run EXCEPT ![r] = Throw(@, err)]
    /\ UNCHANGED <<ui, env, mount, dialogs, reprompts, unhandled>>

\* geminiService.ts 66-81: fileToBase64 settles; on success generateVideos is called.
FileToBase64Settles(r) ==
    /\ run[r].pc = "encode"
    /\ \/ run' = [run EXCEPT ![r] =
                    [@ EXCEPT !.pc = "submit", !.nSubmit = @ + 1,
                              !.request = <<RequestPrompt(run[r].prompt), run[r].image,
                                             run[r].aspectRatio>>]]
       \/ run' = [run EXCEPT ![r] = Throw(@, ReadError)]
    /\ UNCHANGED <<ui, env, mount, dialogs, reprompts, unhandled>>

\* geminiService.ts 69-81: generateVideos settles.
GenerateVideosSettles(r) ==
    /\ run[r].pc = "submit"
    /\ \/ \E operation \in Reports(run[r]) :
            run' = [run EXCEPT ![r] = AfterOperation(Reported(@, operation), operation)]
       \/ run' = [run EXCEPT ![r] = Throw(@, ApiError)]
    /\ UNCHANGED <<ui, env, mount, dialogs, reprompts, unhandled>>

\* geminiService.ts 86-87: the timer fires and the status is fetched again.
PollTimerFires(r) ==
    /\ run[r].pc = "wait"
    /\ run' = [run EXCEPT ![r] = [@ EXCEPT !.pc = "status", !.nStatus = @ + 1]]
    /\ UNCHANGED <<ui, env, mount, dialogs, reprompts, unhandled>>

\* geminiService.ts 87: getVideosOperation settles.
GetVideosOperationSettles(r) ==
    /\ run[r].pc = "status"
    /\ \/ \E operation \in Reports(run[r]) :
            run' = [run EXCEPT ![r] = AfterOperation(Reported(@, operation), operation)]
       \/ run' = [run EXCEPT ![r] = Throw(@, ApiError)]
    /\ UNCHANGED <<ui, env, mount, dialogs, reprompts, unhandled>>

\* geminiService.ts 97-100, 112: fetch settles; the body is read next.
FetchSettles(r) ==
    /\ run[r].pc = "fetch"
    /\ \/ \E status \in HttpStatuses :
            LET response == [status |-> status, body |-> Unread] IN
              run' = [run EXCEPT ![r] =
                        [@ EXCEPT !.pc = IF ResponseOk(response) THEN "blob" ELSE "text",
                                  !.response = response]]
       \/ run' = [run EXCEPT ![r] = Throw(@, NetworkError)]
    /\ UNCHANGED <<ui, env, mount, dialogs, reprompts, unhandled>>

\* geminiService.ts 100-109: response.text() settles.
ResponseTextSettles(r) ==
    /\ run[r].pc = "text"
    /\ \/ \E errorText \in Bodies :
            LET response == [run[r].response EXCEPT !.body = errorText]
                rec == [run[r] EXCEPT !.response = response]
            IN run' = [run EXCEPT ![r] =
                         IF IsInvalidKeyResponse(response)
                         THEN IF aistudio
                              THEN [rec EXCEPT !.pc = "reselect", !.nSelect = @ + 1]
                              ELSE Throw(rec, ErrInvalidKey)
                         ELSE Throw(rec, ErrFetchFailed(response.status, errorText))]
       \/ run' = [run EXCEPT ![r] = Throw(@, NetworkError)]
    /\ UNCHANGED <<ui, env, mount, dialogs, reprompts, unhandled>>

\* Mutant: the download is attempted again once a key was re-selected.
AfterReselect_Retry(rec) == [rec EXCEPT !.pc = "fetch", !.nFetch = @ + 1]

\* geminiService.ts 107: after the re-selection the call fails; nothing is retried.
AfterReselect(rec) == Throw(rec, ErrInvalidKey)

\* geminiService.ts 105-107: the openSelectKey() after a 404 settles.
ReselectKeySettles(r) ==
    /\ run[r].pc = "reselect"
    /\ \/ run' = [run EXCEPT ![r] = AfterReselect(@)]
       \/ \E err \in ProviderRejections :
            run' = [run EXCEPT ![r] = Throw(@, err)]
    /\ UNCHANGED <<ui, env, mount, dialogs, reprompts, unhandled>>

\* geminiService.ts 112-113: response.blob() settles.
ResponseBlobSettles(r) ==
    /\ run[r].pc = "blob"
    /\ \/ run' = [run EXCEPT ![r] = [@ EXCEPT !.pc = "fulfilled", !.url = VideoUrl]]
       \/ run' = [run EXCEPT ![r] = Throw(@, NetworkError)]
    /\ UNCHANGED <<ui, env, mount, dialogs, reprompts, unhandled>>

ClientStep(r) ==
    \/ HasSelectedApiKeySettles(r)
    \/ OpenSelectKeySettles(r)
    \/ FileToBase64Settles(r)
    \/ GenerateVideosSettles(r)
    \/ PollTimerFires(r)
    \/ GetVideosOperationSettles(r)
    \/ FetchSettles(r)
    \/ ResponseTextSettles(r)
    \/ ResponseBlobSettles(r)
    \/ ReselectKeySettles(r)

\* ------------------------------------------------------------ specifications

\* The controls as rendered: the file input, the prompt and the aspect ratio
\* are disabled while loading (App.tsx 167, 195, 212, 224), the "Select API
\* Key" button exists only while apiKeySelected === false (App.tsx 125), the
\* primary button is disabled by GenerateDisabled.
FileInputChange == ~isLoading /\ \E file \in FileInputs : HandleFileChange(file)
PromptChange == ~isLoading /\ \E text \in Prompts : SetPrompt(text)
AspectRatioChange == ~isLoading /\ \E ratio \in AspectRatios : SetAspectRatio(ratio)
SelectKeyClick == apiKeySelected = "false" /\ HandleOpenApiKeySelection
GenerateClick == ~GenerateDisabled /\ HandleGenerateVideo

Next ==
    \/ CheckApiKeyStatus
    \/ CheckApiKeyStatusSettles
    \/ FileInputChange
    \/ PromptChange
    \/ AspectRatioChange
    \/ SelectKeyClick
    \/ OpenApiKeySelectionSettles
    \/ RepromptSettles
    \/ GenerateClick
    \/ \E r \in Runs : ClientStep(r)
    \/ \E r \in Runs : GenerateFulfilled(r)
    \/ \E r \in Runs : GenerateRejected(r)

Spec == Init /\ [][Next]_vars

\* The handler called directly (a test, a non-UI trigger) rather than through
\* the primary button, at any moment the UI is not loading.
GenerateCall == ~isLoading /\ HandleGenerateVideo

NextDirect == Next \/ GenerateCall

SpecDirect == Init /\ [][NextDirect]_vars

\* The poll loop past MaxPolls: the operation reports not-done once more, the
\* client waits (PollBeyondBound) and fetches the status again
\* (TimerBeyondBound); the counters stay at the bound.  Nothing in lines 84-88
\* ends the loop but a done report or a rejected call.
PollBeyondBound(r) ==
    /\ run[r].pc = "status"
    /\ run[r].nNotDone = MaxPolls
    /\ LoopContinues(Pending)
    /\ run' = [run EXCEPT ![r] = [@ EXCEPT !.pc = "waitAgain"]]
    /\ UNCHANGED <<ui, env, mount, dialogs, reprompts, unhandled>>

TimerBeyondBound(r) ==
    /\ run[r].pc = "waitAgain"
    /\ run' = [run EXCEPT ![r] = [@ EXCEPT !.pc = "status"]]
    /\ UNCHANGED <<ui, env, mount, dialogs, reprompts, unhandled>>

\* Every step of a workflow in flight: a reply of an endpoint, a timer, the
\* continuation of handleGenerateVideo.
Progress ==
    \E r \in Runs :
      \/ ClientStep(r)
      \/ PollBeyondBound(r)
      \/ TimerBeyondBound(r)
      \/ GenerateFulfilled(r)
      \/ GenerateRejected(r)

NextFair ==
    \/ Next
    \/ \E r \in Runs : PollBeyondBound(r)
    \/ \E r \in Runs : TimerBeyondBound(r)

\* The event loop runs every continuation that is ready, every timer fires and
\* every endpoint answers: a workflow in flight always takes its next step.
SpecFair == Init /\ [][NextFair]_vars /\ WF_vars(Progress)

\* The scenario in which everything outside the program answers well: the
\* provider is reachable and reports a key, the credential is present, no
\* endpoint rejects, the operation completes with a video that has a uri and
\* its fetch succeeds.  HappyEnvironment is what the scenario admits of the
\* state; the program's steps are the ones of Next.
HappyEnvironment ==
    /\ aistudio /\ API_KEY
    /\ apiKeySelected # "false"
    /\ \A r \in Runs :
         /\ run[r].pc \notin {"rejected", "selectKey", "text", "reselect"}
         /\ run[r].operation.done => run[r].operation.video = HasUri

InitHappy == Init /\ HappyEnvironment

HappyProgress ==
    \E r \in Runs :
      \/ HasSelectedApiKeySettles(r) /\ HappyEnvironment'
      \/ FileToBase64Settles(r) /\ HappyEnvironment'
      \/ GenerateVideosSettles(r) /\ HappyEnvironment'
      \/ PollTimerFires(r)
      \/ GetVideosOperationSettles(r) /\ HappyEnvironment'
      \/ FetchSettles(r) /\ HappyEnvironment'
      \/ ResponseBlobSettles(r) /\ HappyEnvironment'
      \/ GenerateFulfilled(r)

NextHappy ==
    \/ CheckApiKeyStatus
    \/ CheckApiKeyStatusSettles /\ HappyEnvironment'
    \/ FileInputChange
    \/ PromptChange
    \/ AspectRatioChange
    \/ GenerateClick
    \/ HappyProgress

\* As in SpecFair, a workflow in flight always takes its next step.
SpecHappy == InitHappy /\ [][NextHappy]_vars /\ WF_vars(HappyProgress)

\* ------------------------------------------------------------------ claims

\* A step in which the workflow of slot r settles in handleGenerateVideo.
SettlesFulfilled(r) == run[r].pc = "fulfilled" /\ run'[r].pc = "idle"
SettlesRejected(r) == run[r].pc = "rejected" /\ run'[r].pc = "idle"

\* C1: a call of generate() while no image is selected or while the
\* key-present flag is false issues no external call (no workflow is started,
\* no key-provider call is made or left pending), sets a validation error and
\* leaves loading and the prior result as they were.
C1_NoCallWhenPreconditionFails ==
    [][(HandleGenerateVideo /\ (selectedImageFile = NoFile \/ apiKeySelected = "false"))
        => /\ run' = run
           /\ <<dialogs, reprompts, mount>>' = <<dialogs, reprompts, mount>>
           /\ isLoading' = isLoading
           /\ generatedVideoUrl' = generatedVideoUrl
           /\ error' \in {MsgNoImage, MsgKeyNotSelected}]_vars

\* C1 witness: generate() was refused for the flag although an image is selected.
C1_Witness ==
    /\ error = MsgKeyNotSelected
    /\ selectedImageFile # NoFile
    /\ apiKeySelected = "false"
    /\ Active = {}

\* C2: loading is false initially and whenever no generate() is pending, and
\* every settlement of generate(), fulfilled or rejected with any error,
\* leaves it false.
C2_LoadingFalseWhenSettled ==
    /\ [](Active = {} => ~isLoading)
    /\ [][\A r \in Runs : (SettlesFulfilled(r) \/ SettlesRejected(r)) => ~isLoading']_vars

\* C2 witness: a generate() settled with the invalid-key error.
C2_Witness ==
    /\ Active = {}
    /\ error = ErrInvalidKey.message
    /\ ~isLoading

\* C5: triggered through the primary button only, at most one generation
\* workflow is in flight.
C5_SingleFlight == Cardinality(Active) <= 1

\* C5 witness: a workflow is in flight while an image is selected and the flag
\* is not false, so that only the loading flag disables the button.
C5_Witness ==
    /\ Cardinality(Active) = 1
    /\ selectedImageFile # NoFile
    /\ apiKeySelected # "false"
    /\ isLoading
    /\ GenerateDisabled

\* C6: with N not-done reports, the client sets N waits and fetches the status
\* N times, each fetch after one more wait; once done is reported it neither
\* waits nor fetches the status again, and the link is extracted (a fetch of
\* the video, or the no-download-link error) only with done in hand.
C6_PollCount ==
    \A r \in Runs :
      LET rec == run[r] IN
        /\ rec.nWait = rec.nNotDone
        /\ rec.nStatus = IF rec.pc = "wait" THEN rec.nWait - 1 ELSE rec.nWait
        /\ rec.operation.done => rec.pc \notin {"wait", "status"}
        /\ (rec.nFetch > 0 \/ (rec.pc = "rejected" /\ rec.thrown = ErrNoDownloadLink))
             => rec.operation.done

\* C6 witness: done came after MaxPolls not-done reports and the video is being fetched.
C6_Witness ==
    \E r \in Runs :
      /\ run[r].pc = "fetch"
      /\ run[r].nNotDone = MaxPolls
      /\ run[r].nStatus = MaxPolls
      /\ run[r].nWait = MaxPolls

\* C3: whenever loading is true it eventually becomes false again.
C3_LoadingEventuallyCleared == isLoading ~> ~isLoading

\* A step in which the client of slot r submits the Generation Request.
Submits(r) == run[r].pc = "encode" /\ run'[r].pc = "submit"

\* C4 as stated: at every submission the key-present flag is true.
C4_FlagTrueAtSubmission ==
    [][\A r \in Runs : Submits(r) => apiKeySelected = "true"]_vars

\* C4 amended: a request is submitted only by a generate() that was invoked
\* while the key-present flag was not false (true or unknown).
C4_FlagNotFalseAtInvocation ==
    \A r \in Runs : run[r].nSubmit > 0 => run[r].keyAtStart \in {"null", "true"}

\* C4 witness: a request submitted by a generate() invoked with the flag
\* unknown, the flag being false by now.
C4_Witness ==
    \E r \in Runs :
      /\ run[r].pc = "submit"
      /\ run[r].keyAtStart = "null"
      /\ apiKeySelected = "false"

\* The operation of slot r is complete and carries no resource locator.
NoLinkInResponse(r) == run[r].operation.done /\ run[r].operation.video \in {NoVideos, NoUri}

\* C7 as stated: with no generated video entry (or no locator in the first)
\* the client fails with the no-download-link error, having made no video
\* fetch and no key-selection call.
C7_NoLinkNoFetchNoSelect ==
    \A r \in Runs :
      NoLinkInResponse(r)
        => /\ run[r].pc = "rejected"
           /\ run[r].thrown = ErrNoDownloadLink
           /\ run[r].nFetch = 0
           /\ run[r].nSelect = 0

\* C7 amended: ... having made no video fetch, and no key-selection call
\* other than the one of step 2 when the key-presence check reported no key.
C7_NoLinkNoFetch ==
    \A r \in Runs :
      NoLinkInResponse(r)
        => /\ run[r].pc = "rejected"
           /\ run[r].thrown = ErrNoDownloadLink
           /\ run[r].nFetch = 0
           /\ run[r].nSelect = IF run[r].hasKey = "false" THEN 1 ELSE 0

\* C7 witness: the first video entry has no locator; the client has failed.
C7_Witness ==
    \E r \in Runs :
      /\ run[r].operation = [done |-> TRUE, video |-> NoUri]
      /\ run[r].pc = "rejected"
      /\ run[r].hasKey = "true"

\* The video fetch of slot r answered 404 and the body read names the missing entity.
NotFoundResponse(r) ==
    /\ run[r].response.status = 404
    /\ Includes(run[r].response.body, "Requested entity was not found.")

\* C8 as stated: after such a response the run has called openSelectKey
\* exactly once and fails with the invalid-key error.
C8_ReselectOnceInvalidKey ==
    \A r \in Runs :
      NotFoundResponse(r)
        => /\ run[r].nSelect = 1
           /\ run[r].pc = "rejected" => run[r].thrown = ErrInvalidKey

\* C8 amended: after such a response the client calls openSelectKey exactly
\* once more (the second call of the run when the key-presence check had
\* reported no key), and the run fails with the invalid-key error when that
\* call resolves and with the call's own rejection when it rejects.
C8_ReselectOnceMore ==
    \A r \in Runs :
      NotFoundResponse(r)
        => /\ run[r].pc \in {"reselect", "rejected"}
           /\ run[r].nSelect = IF run[r].hasKey = "false" THEN 2 ELSE 1
           /\ run[r].pc = "rejected"
                => run[r].thrown \in {ErrInvalidKey} \cup ProviderRejections

\* C8 witness: the run failed with the invalid-key error after one re-selection.
C8_Witness ==
    \E r \in Runs :
      /\ NotFoundResponse(r)
      /\ run[r].pc = "rejected"
      /\ run[r].thrown = ErrInvalidKey
      /\ run[r].nSelect = 1

\* The error is one of the client's two key errors.
KeyProblem(err) == err \in {ErrNotConfigured, ErrInvalidKey}

C10_ExactlyOneOutcome ==
    [][\A r \in Runs :
         /\ SettlesFulfilled(r) => generatedVideoUrl' # Null /\ error' = NoMessage
         /\ SettlesRejected(r) => error' # NoMessage /\ generatedVideoUrl' = Null]_vars

\* C10 amended: on success the result is set to the client's handle and the
\* error is left as it is (unset unless another handler set it during the
\* run); on failure an error is set and the result is unset.
C10_OutcomeStored ==
    [][\A r \in Runs :
         /\ SettlesFulfilled(r)
              => /\ generatedVideoUrl' = run[r].url
                 /\ generatedVideoUrl' # Null
                 /\ error' = error
         /\ SettlesRejected(r) => error' # NoMessage /\ generatedVideoUrl' = Null]_vars

\* C10 witness: the result is set while the error of a key-selection dialog,
\* which failed during the run, is still displayed.
C10_Witness ==
    /\ generatedVideoUrl = VideoUrl
    /\ error = MsgDialogFailed
    /\ Active = {}

\* The selections whose declared type is an image type.
ImageFiles == {JpegFile}

\* C11: selectImage with a selection that is no image (no file included)
\* leaves the image and the preview unset and a validation error set; with an
\* image it leaves the image and a preview set and no error.
C11_SelectImage ==
    [][\A file \in FileInputs :
         HandleFileChange(file)
           => IF file \in ImageFiles
              THEN /\ selectedImageFile' = file
                   /\ imagePreviewUrl' # Null
                   /\ error' = NoMessage
              ELSE /\ selectedImageFile' = NoFile
                   /\ imagePreviewUrl' = Null
                   /\ error' # NoMessage]_vars

\* C11 witness: a non-image selection was refused after a generate() had
\* failed, which needed an image selected before.
C11_Witness ==
    /\ selectedImageFile = NoFile
    /\ imagePreviewUrl = Null
    /\ error = MsgInvalidImage
    /\ apiKeySelected = "false"
    /\ reprompts > 0

\* C12: the client's steps happen in a fixed order: reachability check, key
\* check, credential check, encoding, exactly one submission, the poll loop,
\* link extraction, at most one fetch.  The fetch happens only once the
\* operation reported done with a locator, and nothing is retried, not even
\* after a key re-selection.
C12_StepOrder ==
    \A r \in Runs :
      LET rec == run[r] IN
        /\ rec.nHasKey <= 1 /\ rec.nSubmit <= 1 /\ rec.nFetch <= 1
        /\ rec.nHasKey = 1 => aistudio
        /\ rec.nSelect > 0 => rec.nHasKey = 1
        /\ rec.pc \in {"hasKey", "selectKey", "encode"} => rec.nSubmit = 0
        /\ rec.pc = "encode" \/ rec.nSubmit > 0
             => /\ rec.hasKey # "null"
                /\ rec.hasKey = "false" => rec.nSelect >= 1
                /\ API_KEY
        /\ rec.nSubmit = 0
             => rec.nWait = 0 /\ rec.nStatus = 0 /\ rec.nFetch = 0 /\ rec.operation = Pending
        /\ rec.pc = "submit"
             => rec.nSubmit = 1 /\ rec.nWait = 0 /\ rec.nStatus = 0 /\ rec.nFetch = 0
        /\ rec.pc \in {"wait", "status"} => rec.nSubmit = 1 /\ rec.nFetch = 0
        /\ rec.pc = "rejected" /\ rec.thrown = ErrNoDownloadLink
             => rec.operation.done /\ rec.nFetch = 0
        /\ rec.nFetch > 0 => rec.operation.done /\ rec.operation.video = HasUri
        /\ rec.pc \in {"fetch", "text", "blob", "reselect", "fulfilled"}
             => rec.nSubmit = 1 /\ rec.nFetch = 1

\* C12 witness: a call that selected a key, polled, fetched once, re-selected
\* a key after the 404 and failed without a second fetch.
C12_Witness ==
    \E r \in Runs :
      /\ run[r].pc = "rejected"
      /\ run[r].thrown = ErrInvalidKey
      /\ run[r].nSelect = 2
      /\ run[r].nStatus > 0
      /\ run[r].nFetch = 1

\* C13: the key check started on mount sets the flag to the provider's answer
\* when the check succeeds and to false when the check fails or the provider
\* is absent; once the check has completed the flag is never unknown.
C13_CheckSetsFlag ==
    /\ [](mount = "done" => apiKeySelected # "null")
    /\ [][/\ CheckApiKeyStatusReply("true") => apiKeySelected' = "true"
          /\ CheckApiKeyStatusReply("false") => apiKeySelected' = "false"
          /\ CheckApiKeyStatusReply("rejected") => apiKeySelected' = "false"
          /\ CheckApiKeyStatus /\ ~aistudio => mount' = "done" /\ apiKeySelected' = "false"
          /\ CheckApiKeyStatus /\ aistudio => mount' # "done"
          /\ mount # "done" /\ mount' = "done" => apiKeySelected' # "null"]_vars

\* C13 witness: the check, still pending when a generate() call began, has
\* completed with the provider reachable and left the flag false.
C13_Witness ==
    /\ mount = "done"
    /\ aistudio
    /\ apiKeySelected = "false"
    /\ isLoading
    /\ \E r \in Runs : run[r].pc = "hasKey"

\* C14: requestKeySelection sets the flag to true when the selection succeeds;
\* when it fails, or the provider is absent, an error is shown and the flag
\* keeps the value it had.
C14_SelectionSetsFlag ==
    [][/\ OpenApiKeySelectionReply(TRUE) => apiKeySelected' = "true"
       /\ OpenApiKeySelectionReply(FALSE)
            => apiKeySelected' = apiKeySelected /\ error' # NoMessage
       /\ HandleOpenApiKeySelection /\ ~aistudio
            => apiKeySelected' = apiKeySelected /\ error' # NoMessage /\ dialogs' = dialogs]_vars

\* C14 witness: the selection failed after the mount check had answered true
\* in the meantime; the failure is shown and the flag is still true.
C14_Witness ==
    /\ error = MsgDialogFailed
    /\ apiKeySelected = "true"
    /\ dialogs = 0
    /\ mount = "done"

\* C15: every caller of hasSelectedApiKey treats a failed check as "no key
\* selected": the mount check stores false, and a client call whose check
\* fails goes on as with the answer false, by invoking key selection, instead
\* of failing with the check's error.  (A check that gave no answer leaves
\* the call's hasKey unknown.)
C15_FailedCheckIsKeyAbsent ==
    [][/\ CheckApiKeyStatusReply("rejected") => apiKeySelected' = "false"
       /\ \A r \in Runs :
            run[r].pc = "hasKey" /\ run'[r].pc # "hasKey" /\ run'[r].hasKey = "null"
              => /\ run'[r].pc = "selectKey"
                 /\ run'[r].nSelect = run[r].nSelect + 1]_vars

\* C16: every failure of openSelectKey is shown to the user as an error at
\* each call site: the "Select API Key" action, the client's selection after
\* its key check, the client's re-selection after a 404, and the automatic
\* re-prompt after a key-related failure (whose rejection must not go
\* unhandled).
C16_SelectionFailureSurfaced ==
    [][/\ OpenApiKeySelectionReply(FALSE) => error' # NoMessage
       /\ \A r \in Runs :
            /\ SettlesRejected(r)
            /\ run[r].nSelect >= 1
            /\ run[r].thrown \in ProviderRejections
            => error' = run[r].thrown.message
       /\ RepromptSettles => ~unhandled']_vars

\* C17: on the happy path (valid image, key present, the operation completes
\* with one video whose fetch succeeds) generate() takes loading from false
\* to true and back to false and ends with the result handle set to the
\* resource the client returned and no error; with an empty prompt the
\* submitted prompt is the default prompt, and the aspect ratio is the chosen one.
C17_HappyPath ==
    /\ [][GenerateClick => ~isLoading /\ isLoading' /\ error' = NoMessage]_vars
    /\ [][\A r \in Runs :
            /\ Submits(r) /\ run[r].prompt = EmptyPrompt
                 => run'[r].request[1] = DefaultPrompt
            /\ Submits(r) => run'[r].request[1] # EmptyPrompt
                             /\ run'[r].request[3] = run[r].aspectRatio
            /\ SettlesFulfilled(r)
                 => /\ isLoading /\ ~isLoading'
                    /\ run[r].url # Null
                    /\ generatedVideoUrl' = run[r].url
                    /\ error' = NoMessage]_vars
    /\ isLoading ~> (~isLoading /\ generatedVideoUrl # Null /\ error = NoMessage)

\* C17 witness: the client has returned the video for an empty prompt at
\* 16:9 after polling, having submitted the default prompt.
C17_Witness ==
    \E r \in Runs :
      /\ run[r].pc = "fulfilled"
      /\ run[r].prompt = EmptyPrompt
      /\ run[r].aspectRatio = SIXTEEN_NINE
      /\ run[r].request = <<DefaultPrompt, JpegFile, SIXTEEN_NINE>>
      /\ run[r].nStatus >= 1
      /\ run[r].url = VideoUrl
      /\ isLoading
      /\ error = NoMessage

\* C18: when the client's key check reports no key, the client invokes key
\* selection once and, without checking again, goes on to submission as if a
\* key were present; the "key not configured" failure occurs exactly when the
\* environment's credential is absent, and then nothing is submitted, polled
\* or fetched.
C18_OptimisticSelection ==
    /\ [](\A r \in Runs :
            LET rec == run[r] IN
              /\ rec.hasKey = "false"
                   => /\ rec.nHasKey = 1
                      /\ rec.nSelect >= 1
                      /\ rec.nFetch = 0 => rec.nSelect = 1
              /\ rec.pc = "rejected" /\ rec.thrown = ErrNotConfigured
                   => ~API_KEY /\ rec.nSubmit = 0 /\ rec.nStatus = 0 /\ rec.nFetch = 0
              /\ ~API_KEY => rec.pc \in {"idle", "hasKey", "selectKey", "rejected"}
                             /\ rec.nSubmit = 0 /\ rec.nStatus = 0 /\ rec.nFetch = 0
              /\ ~API_KEY /\ rec.pc = "rejected"
                   => rec.thrown \in {ErrEnvironment, ErrNotConfigured} \cup ProviderRejections)
    /\ [][\A r \in Runs :
            /\ run[r].pc = "hasKey" /\ run'[r].hasKey = "false"
                 => run'[r].pc = "selectKey" /\ run'[r].nSelect = 1
            /\ run[r].pc = "selectKey" /\ run'[r].pc # "selectKey"
                 => /\ run'[r].nHasKey = 1
                    /\ run'[r].thrown \notin ProviderRejections
                         => IF API_KEY
                            THEN run'[r].pc = "encode"
                            ELSE run'[r].pc = "rejected" /\ run'[r].thrown = ErrNotConfigured
            /\ run[r].pc = "hasKey" /\ run'[r].hasKey = "true"
                 => IF API_KEY
                    THEN run'[r].pc = "encode"
                    ELSE run'[r].pc = "rejected" /\ run'[r].thrown = ErrNotConfigured]_vars

\* C18 witness: a call whose check reported no key invoked key selection
\* once, checked no second time, and has submitted its request.
C18_Witness ==
    \E r \in Runs :
      /\ run[r].hasKey = "false"
      /\ run[r].nHasKey = 1
      /\ run[r].nSelect = 1
      /\ run[r].pc = "submit"
      /\ run[r].nSubmit = 1

\* C19: when the key provider is not reachable as the client starts, the
\* client fails at once with the "environment not found" error, having made
\* no key check, key selection, submission or fetch; the UI shows that
\* message verbatim and does not treat it as a key problem: the flag is left
\* as it was and no dialog is re-opened.
C19_EnvironmentMissing ==
    /\ [](\A r \in Runs :
            LET rec == run[r] IN
              /\ rec.pc # "idle" /\ ~aistudio
                   => /\ rec.pc = "rejected"
                      /\ rec.thrown = ErrEnvironment
                      /\ rec.nHasKey = 0 /\ rec.nSelect = 0 /\ rec.nSubmit = 0
                      /\ rec.nStatus = 0 /\ rec.nFetch = 0
              /\ rec.pc = "rejected" /\ rec.thrown = ErrEnvironment => ~aistudio)
    /\ [][\A r \in Runs :
            SettlesRejected(r) /\ ~aistudio
              => /\ error' = ErrEnvironment.message
                 /\ apiKeySelected' = apiKeySelected
                 /\ reprompts' = reprompts
                 /\ ~isLoading']_vars

\* C19 witness: the environment error is displayed after a generate() call
\* made before the mount check ran; the flag is still unknown.
C19_Witness ==
    /\ ~aistudio
    /\ error = ErrEnvironment.message
    /\ apiKeySelected = "null"
    /\ ~isLoading
    /\ reprompts = 0

C21_ImageIffPreview ==
    /\ selectedImageFile # NoFile <=> imagePreviewUrl # Null
    /\ selectedImageFile # NoFile => PreviewShown
    /\ ~InvalidTypeNoteShown

\* C21 witness: an image is selected and its preview shown again after a
\* generate() failure on a key problem, for which an image had to be selected
\* already.
C21_Witness ==
    /\ selectedImageFile = JpegFile
    /\ imagePreviewUrl = PreviewUrl
    /\ PreviewShown
    /\ error = NoMessage
    /\ apiKeySelected = "false"
    /\ reprompts > 0
    /\ ~isLoading

====
